---- MODULE Spec2Model ----
(***************************************************************************)
(* The practice3 storage engine: a single consumer loop that owns the      *)
(* feature map, the R-tree, the vector clock, the WAL file and the         *)
(* snapshot file, and fans transactions out to the peer connections of its *)
(* ReplicaRegistry.                                                        *)
(***************************************************************************)
EXTENDS Integers, Sequences, FiniteSets, Bags, TLC

(* ------------------------------ bounds -------------------------------- *)

\* Apply and Snapshot commands issued in one run.
MaxOps == 2

\* HTTP requests the storage's handlers serve in one run.
MaxRequests == 3

(* ------------------------- the universe of a run ----------------------- *)

Self == "storage-1-1"

Replicas == {"storage-1-2", "storage-1-3"}

Origins == {Self, "storage-1-2"}

Callers == {"c1", "c2"}

Ids == {"a", "b"}

\* Point(1,1) and LineString((2,3),(3,2)).
Geometries == {<< <<1, 1>> >>, << <<2, 3>>, <<3, 2>> >>}

\* Feature a as a point and as a line, feature b as a point.
Payloads == {[ID |-> "a", Geometry |-> << <<1, 1>> >>],
             [ID |-> "a", Geometry |-> << <<2, 3>>, <<3, 2>> >>],
             [ID |-> "b", Geometry |-> << <<1, 1>> >>]}

\* The features a peer's message may carry.
ForeignPayloads == {[ID |-> "b", Geometry |-> << <<1, 1>> >>]}

Upsert == "upsert"

Delete == "delete"

Actions == {Upsert, Delete}

\* [minX, minY, maxX, maxY] of a select request.
QueryRects == {<<1, 1, 1, 1>>, <<2, 2, 2, 2>>, <<0, 0, 3, 3>>}

Transaction(action, name, lsn, feature) ==
    [Action |-> action, Name |-> name, Lsn |-> lsn, Feature |-> feature]

\* The lsns a peer's message may carry.
ForeignLsns == {1, 2}

\* The messages the replication handler may hand to ApplyTransactionRaw.
Transactions == [Action : Actions, Name : Origins, Lsn : ForeignLsns, Feature : ForeignPayloads]

NoTx == [Action |-> "none", Name |-> "", Lsn |-> 0, Feature |-> [ID |-> "", Geometry |-> << >>]]

NoRect == <<0, 0, 0, 0>>

Feature(name, lsn, feature) == [Name |-> name, LSN |-> lsn, Feature |-> feature]

\* A request body that geojson.UnmarshalFeature accepts: type is the dynamic
\* type of feature.ID (nil when the body has no "id", float64 for a number).
Body(type, feature) == [type |-> type, feature |-> feature]

NoBody == Body("nil", [ID |-> "", Geometry |-> << >>])

Bodies ==
    {Body("string", p) : p \in Payloads}
        \cup {Body("nil", [ID |-> "", Geometry |-> << <<1, 1>> >>]),
              Body("float64", [ID |-> "7", Geometry |-> << <<1, 1>> >>])}

Methods == {"insert", "replace", "delete"}

StatusOK == 200

StatusBadRequest == 400

StatusNotFound == 404

StatusInternalServerError == 500

(* ------------------------------- state --------------------------------- *)

VARIABLES
    state,          \* lifecycle of the engine goroutine
    data,           \* Engine.data: id -> Feature
    rTree,          \* Engine.rTree: bag of entries [min, max, data]
    vclock,         \* Engine.vclock: origin -> highest accepted lsn (0 when absent)
    walFile,        \* the file at Engine.walFile
    snapshotFile,   \* the file at Engine.snapshotFile
    replay,         \* the transactions loadWAL returned that applyWAL has not reached yet
    connections,    \* ReplicaRegistry.connections of the engine: the replicas dialled
    sinks,          \* replica -> the messages written to its connection, in order
    pending,        \* caller -> the Lsn it stamped in ApplyTransaction before enqueueing (0: no call)
    last,           \* the command the loop has executed and whose reply the caller has not received yet
    removing,       \* the replicas a "go r.Remove(replica)" goroutine is waiting to remove
    panicked,       \* the callers whose goroutine panicked in "e.commands <- command"
    request,        \* caller -> the HTTP request its handler is serving, and how far it got
    served,         \* HTTP requests that have reached a handler
    ops,            \* Apply and Snapshot commands executed so far
    readded,        \* the replicas whose connection was registered while a "go r.Remove" of their name was pending
    peer,           \* the engine of the storage behind the sink of Peer, and how many messages it has read
    selects         \* the select request a client is following through the storages' redirects

vars == <<state, data, rTree, vclock, walFile, snapshotFile, replay, connections,
          sinks, pending, last, removing, panicked, request, served, ops, readded, peer, selects>>

(* ------------------------------- helpers ------------------------------- *)

EmptyMap == [k \in {} |-> k]

MapPut(m, k, v) == [x \in (DOMAIN m) \cup {k} |-> IF x = k THEN v ELSE m[x]]

MapDelete(m, k) == [x \in (DOMAIN m) \ {k} |-> m[x]]

MinOf(S) == CHOOSE x \in S : \A y \in S : x <= y

MaxOf(S) == CHOOSE x \in S : \A y \in S : x >= y

Mem(d, t, v) == [data |-> d, rTree |-> t, vclock |-> v]

EmptyVClock == [o \in Origins |-> 0]

(* ------------------------------- R-tree -------------------------------- *)

\* feature.Geometry.Bound(): the axis-aligned bounding rectangle.
computeBoundsForRTree(feature) ==
    LET xs == {feature.Geometry[i][1] : i \in DOMAIN feature.Geometry}
        ys == {feature.Geometry[i][2] : i \in DOMAIN feature.Geometry}
    IN  [leftBottom |-> <<MinOf(xs), MinOf(ys)>>, topRight |-> <<MaxOf(xs), MaxOf(ys)>>]

Entry(feature) ==
    LET b == computeBoundsForRTree(feature)
    IN  [min |-> b.leftBottom, max |-> b.topRight, data |-> feature.ID]

\* rTree.Insert adds an entry; it never looks for an entry of the same id.
updateRTree(tree, feature) == tree (+) SetToBag({Entry(feature)})

\* rTree.Delete removes one entry with exactly this rectangle and id, if there is one.
deleteFromRTree(tree, feature) ==
    IF BagIn(Entry(feature), tree) THEN tree (-) SetToBag({Entry(feature)}) ELSE tree

\* rTree.Search: the entries whose rectangle intersects the query, bounds inclusive.
Search(tree, coordinates) ==
    {e \in BagToSet(tree) :
        /\ e.min[1] <= coordinates[3] /\ coordinates[1] <= e.max[1]
        /\ e.min[2] <= coordinates[4] /\ coordinates[2] <= e.max[2]}

(* ------------------------- commands' implementations -------------------- *)

getAllData(d) ==
    LET fs == {d[id] : id \in DOMAIN d}
    IN  [k \in {f.Feature.ID : f \in fs} |-> (CHOOSE f \in fs : f.Feature.ID = k).Feature]

\* e.data[ID].Feature dereferences a nil *Feature when the R-tree names an id
\* the map does not hold: the goroutine panics.
getData(d, tree, coordinates) ==
    LET featureIDs == {e.data : e \in Search(tree, coordinates)}
    IN  [panic  |-> \E ID \in featureIDs : ID \notin DOMAIN d,
         result |-> [ID \in featureIDs \cap DOMAIN d |-> d[ID].Feature]]

\* applyTransaction past the dominance check (engine.go 154-165).
applyDominant(mem, tx) ==
    LET v  == [mem.vclock EXCEPT ![tx.Name] = tx.Lsn]
        ID == tx.Feature.ID
    IN  IF tx.Action = Upsert
        THEN [applied |-> TRUE,
              mem |-> Mem(MapPut(mem.data, ID, Feature(tx.Name, tx.Lsn, tx.Feature)),
                          updateRTree(mem.rTree, tx.Feature), v)]
        ELSE IF tx.Action = Delete
        THEN [applied |-> TRUE,
              mem |-> Mem(MapDelete(mem.data, ID), deleteFromRTree(mem.rTree, tx.Feature), v)]
        ELSE [applied |-> TRUE, mem |-> Mem(mem.data, mem.rTree, v)]

\* Mutant: the dominance check written with < lets an equal lsn through.
applyTransaction_StrictCheck(mem, tx) ==
    IF tx.Lsn < mem.vclock[tx.Name]
    THEN [applied |-> FALSE, mem |-> mem]
    ELSE applyDominant(mem, tx)

applyTransaction(mem, tx) ==
    IF tx.Lsn <= mem.vclock[tx.Name]
    THEN [applied |-> FALSE, mem |-> mem]
    ELSE applyDominant(mem, tx)

(* -------------------------------- files -------------------------------- *)

NoFile == [exists |-> FALSE, lines |-> << >>]

\* json.Marshal(tx): one line, the keys action, name, lsn, feature.
MarshalTx(tx) == <<tx.Action, tx.Name, tx.Lsn, tx.Feature>>

WellFormedLine(line) == Len(line) = 4 /\ line[1] \in Actions

UnmarshalTx(line) == Transaction(line[1], line[2], line[3], line[4])

WalOutcomes == {"ok", "fail"}

\* Mutant: the file is opened without O_APPEND and the record lands at offset 0.
saveTransactionToWAL_AtStart(file, tx, outcome) ==
    IF outcome = "ok"
    THEN [err |-> FALSE, file |-> [exists |-> TRUE, lines |-> <<MarshalTx(tx)>> \o file.lines]]
    ELSE [err |-> TRUE, file |-> file]

\* os.OpenFile(O_APPEND) or file.Write fails: nothing is appended.
saveTransactionToWAL(file, tx, outcome) ==
    IF outcome = "ok"
    THEN [err |-> FALSE, file |-> [exists |-> TRUE, lines |-> Append(file.lines, MarshalTx(tx))]]
    ELSE [err |-> TRUE, file |-> file]

\* bufio.MaxScanTokenSize: the longest line a default bufio.Scanner returns.
MaxScanTokenSize == 65536

\* json.Marshal writes a position of a LineString as "[x,y]" and a comma.
BytesPerPosition == 6

\* The bytes of a record's line, from below: the positions of its geometry.
ByteLen(line) == IF Len(line) = 4 THEN BytesPerPosition * Len(line[4].Geometry) ELSE Len(line)

\* scanner.Scan() stops at such a line and scanner.Err() is bufio.ErrTooLong.
TooLong(line) == ByteLen(line) > MaxScanTokenSize

RECURSIVE ParseLines(_)
ParseLines(lines) ==
    IF lines = << >> THEN << >>
    ELSE IF WellFormedLine(Head(lines))
         THEN <<UnmarshalTx(Head(lines))>> \o ParseLines(Tail(lines))
         ELSE ParseLines(Tail(lines))

\* "return nil, err" when the scanner stopped with an error: Start drops the
\* error and replays the nil slice.
loadWAL(file) ==
    IF ~file.exists THEN << >>
    ELSE IF \E i \in DOMAIN file.lines : TooLong(file.lines[i]) THEN << >>
    ELSE ParseLines(file.lines)

\* os.OpenFile(O_RDWR|O_TRUNC) without O_CREATE: an absent file is an error.
clearWAL(file) ==
    IF ~file.exists THEN [err |-> TRUE, file |-> file]
    ELSE [err |-> FALSE, file |-> [exists |-> TRUE, lines |-> << >>]]

NoSnapshot == [exists |-> FALSE, content |-> {}]

\* json.Marshal(e.data): id -> {Name, LSN, Feature}; the vector clock is not part of it.
MarshalData(d) == {<<id, d[id].Name, d[id].LSN, d[id].Feature>> : id \in DOMAIN d}

UnmarshalData(content) ==
    [id \in {e[1] : e \in content} |->
        LET e == CHOOSE x \in content : x[1] = id IN Feature(e[2], e[3], e[4])]

SnapshotOutcomes == {"ok", "fail"}

saveSnapshot(file, d, outcome) ==
    IF outcome = "ok"
    THEN [err |-> FALSE, file |-> [exists |-> TRUE, content |-> MarshalData(d)]]
    ELSE [err |-> TRUE, file |-> file]

loadSnapshot(file) == IF ~file.exists THEN EmptyMap ELSE UnmarshalData(file.content)

RECURSIVE restoreRTreeOver(_, _)
restoreRTreeOver(d, ids) ==
    IF ids = {} THEN EmptyBag
    ELSE LET id == CHOOSE x \in ids : TRUE
         IN  updateRTree(restoreRTreeOver(d, ids \ {id}), d[id].Feature)

restoreRTree(d) == restoreRTreeOver(d, DOMAIN d)

(* ----------------------------- replication ----------------------------- *)

NoSinks == [r \in Replicas |-> << >>]

\* Mutant: only Upserts are written to the connections.
Broadcast_SkipDeletes(name, conns, out, tx, failed) ==
    IF tx.Name # name \/ tx.Action = Delete THEN [out |-> out, scheduled |-> {}]
    ELSE [out |-> [r \in Replicas |-> IF r \in conns \ failed THEN Append(out[r], tx)
                                      ELSE out[r]],
          scheduled |-> conns \cap failed]

\* Mutant: the loop over the connections stops after the first one.
Broadcast_FirstOnly(name, conns, out, tx, failed) ==
    IF tx.Name # name \/ conns = {} THEN [out |-> out, scheduled |-> {}]
    ELSE LET first == CHOOSE r \in conns : TRUE
         IN  [out |-> [out EXCEPT ![first] = IF first \in failed THEN out[first]
                                              ELSE Append(out[first], tx)],
              scheduled |-> {first} \cap failed]

\* Mutant: a failed write ends the loop, here before any other connection is written.
Broadcast_ReturnOnError(name, conns, out, tx, failed) ==
    IF tx.Name # name THEN [out |-> out, scheduled |-> {}]
    ELSE IF conns \cap failed # {} THEN [out |-> out, scheduled |-> conns \cap failed]
    ELSE [out |-> [r \in Replicas |-> IF r \in conns THEN Append(out[r], tx) ELSE out[r]],
          scheduled |-> {}]

\* ReplicaRegistry.Broadcast: only transactions of this node's origin go out,
\* one conn.WriteJSON per registered connection; failed holds the replicas
\* whose write returns an error, each of which gets a "go r.Remove(replica)".
Broadcast(name, conns, out, tx, failed) ==
    IF tx.Name # name THEN [out |-> out, scheduled |-> {}]
    ELSE [out |-> [r \in Replicas |-> IF r \in conns \ failed THEN Append(out[r], tx)
                                      ELSE out[r]],
          scheduled |-> conns \cap failed]

\* The loop of broadcastAllData; fails[i] holds the replicas whose write of txs[i] fails.
RECURSIVE BroadcastAll(_, _, _, _, _)
BroadcastAll(name, conns, out, txs, fails) ==
    IF txs = << >> THEN [out |-> out, scheduled |-> {}]
    ELSE LET b == Broadcast(name, conns, out, Head(txs), Head(fails))
             rest == BroadcastAll(name, conns, b.out, Tail(txs), Tail(fails))
         IN  [out |-> rest.out, scheduled |-> b.scheduled \cup rest.scheduled]

\* Mutant: the synthetic Upserts go out in the order the map iteration gave.
SortedTxs_MapOrder(d) ==
    LET txs == {Transaction(Upsert, d[id].Name, d[id].LSN, d[id].Feature) : id \in DOMAIN d}
    IN  {s \in [1..Cardinality(txs) -> txs] : \A i, j \in DOMAIN s : i # j => s[i] # s[j]}

\* The orders sort.Slice may leave the synthetic Upserts in: ascending Lsn,
\* equal Lsns in any order.
SortedTxs(d) ==
    LET txs == {Transaction(Upsert, d[id].Name, d[id].LSN, d[id].Feature) : id \in DOMAIN d}
    IN  {s \in [1..Cardinality(txs) -> txs] :
            /\ \A i, j \in DOMAIN s : i # j => s[i] # s[j]
            /\ \A i, j \in DOMAIN s : i < j => s[i].Lsn <= s[j].Lsn}

Applied(err, applied, mem, file, out, scheduled) ==
    [err |-> err, applied |-> applied, mem |-> mem, file |-> file, out |-> out,
     scheduled |-> scheduled]

\* Mutant: the early return tests err only, not applied.
applyTransactionAndSave_NoAppliedCheck(mem, file, conns, out, tx, outcome, failed) ==
    LET a == applyTransaction(mem, tx)
        w == saveTransactionToWAL(file, tx, outcome)
        b == Broadcast(Self, conns, out, tx, failed)
    IN  IF w.err
        THEN Applied(TRUE, a.applied, a.mem, w.file, out, {})
        ELSE Applied(FALSE, a.applied, a.mem, w.file, b.out, b.scheduled)

\* Mutant: the transaction is broadcast before the WAL append is attempted.
applyTransactionAndSave_BroadcastFirst(mem, file, conns, out, tx, outcome, failed) ==
    LET a == applyTransaction(mem, tx)
        w == saveTransactionToWAL(file, tx, outcome)
        b == Broadcast(Self, conns, out, tx, failed)
    IN  IF ~a.applied
        THEN Applied(FALSE, FALSE, a.mem, file, out, {})
        ELSE Applied(w.err, TRUE, a.mem, w.file, b.out, b.scheduled)

\* Mutant: the error of the WAL append is logged and dropped.
applyTransactionAndSave_DropWalError(mem, file, conns, out, tx, outcome, failed) ==
    LET a == applyTransaction(mem, tx)
        w == saveTransactionToWAL(file, tx, outcome)
        b == Broadcast(Self, conns, out, tx, failed)
    IN  IF ~a.applied
        THEN Applied(FALSE, FALSE, a.mem, file, out, {})
        ELSE IF w.err
        THEN Applied(FALSE, TRUE, a.mem, w.file, out, {})
        ELSE Applied(FALSE, TRUE, a.mem, w.file, b.out, b.scheduled)

applyTransactionAndSave(mem, file, conns, out, tx, outcome, failed) ==
    LET a == applyTransaction(mem, tx)
        w == saveTransactionToWAL(file, tx, outcome)
        b == Broadcast(Self, conns, out, tx, failed)
    IN  IF ~a.applied
        THEN Applied(FALSE, FALSE, a.mem, file, out, {})
        ELSE IF w.err
        THEN Applied(TRUE, TRUE, a.mem, w.file, out, {})
        ELSE Applied(FALSE, TRUE, a.mem, w.file, b.out, b.scheduled)

\* Start up to the dial: loadSnapshot, restoreRTree, loadWAL, applyWAL.
RECURSIVE applyWAL(_, _)
applyWAL(mem, wal) ==
    IF wal = << >> THEN mem
    ELSE applyWAL(applyTransaction(mem, Head(wal)).mem, Tail(wal))

Recover(snapshot, wal) ==
    LET d == loadSnapshot(snapshot)
    IN  applyWAL(Mem(d, restoreRTree(d), EmptyVClock), loadWAL(wal))

\* Mutant: clearWAL runs whatever saveSnapshot returned.
makeSnapshot_ClearAlways(snapshot, wal, d, outcome) ==
    LET s == saveSnapshot(snapshot, d, outcome)
        w == clearWAL(wal)
    IN  [err |-> s.err \/ w.err, snapshot |-> s.file, wal |-> w.file]

makeSnapshot(snapshot, wal, d, outcome) ==
    LET s == saveSnapshot(snapshot, d, outcome)
        w == clearWAL(wal)
    IN  IF s.err THEN [err |-> TRUE, snapshot |-> s.file, wal |-> wal]
        ELSE [err |-> w.err, snapshot |-> s.file, wal |-> w.file]

(* ------------------------------- actions ------------------------------- *)

\* What Execute did and what it sends on the command's response channel.
Executed(kind, tx, reply, applied) ==
    [kind |-> kind, tx |-> tx, coordinates |-> NoRect, ID |-> "", reply |-> reply,
     result |-> EmptyMap, exists |-> FALSE, applied |-> applied, failed |-> {}]

Read(kind, coordinates, ID, result, exists) ==
    [kind |-> kind, tx |-> NoTx, coordinates |-> coordinates, ID |-> ID, reply |-> "data",
     result |-> result, exists |-> exists, applied |-> FALSE, failed |-> {}]

Nothing == Executed("none", NoTx, "none", FALSE)

\* How far a handler got: phase "exists" before s.engine.Exists, "apply"
\* before and in s.engine.ApplyTransaction, "done" once the status is
\* written, "panicked" when the handler's goroutine panicked.
Handling(method, body, phase, status) ==
    [method |-> method, body |-> body, phase |-> phase, status |-> status]

NoRequest == Handling("none", NoBody, "none", 0)

\* The storages main starts; each has the three others as its replicas.
Storages == {"storage-1-1", "storage-1-2", "storage-1-3", "storage-1-4"}

MaxRedirects == 3

StatusTemporaryRedirect == 307

StatusTooManyRequests == 429

\* The ttl parameter of a request's RawQuery: absent, or a number.
NoTtl == [present |-> FALSE, value |-> 0]

Ttl(n) == [present |-> TRUE, value |-> n]

\* A select request: the storage its URL names, the ttl of its query, the
\* redirects the client has followed, and the status of the last response.
Select(node, ttl, hops, status) == [node |-> node, ttl |-> ttl, hops |-> hops, status |-> status]

NoSelect == Select("", NoTtl, 0, 0)

\* The storage whose replicationHandler reads what this node writes to it.
Peer == "storage-1-2"

\* A peer that starts empty and has read nothing.
NoPeer == [mem |-> Mem(EmptyMap, EmptyBag, EmptyVClock), read |-> 0]

Init ==
    /\ state = "Init"
    /\ data = EmptyMap
    /\ rTree = EmptyBag
    /\ vclock = EmptyVClock
    /\ walFile = NoFile
    /\ snapshotFile = NoSnapshot
    /\ replay = << >>
    /\ connections = {}
    /\ sinks = NoSinks
    /\ pending = [c \in Callers |-> 0]
    /\ last = Nothing
    /\ removing = {}
    /\ panicked = {}
    /\ request = [c \in Callers |-> NoRequest]
    /\ served = 0
    /\ ops = 0
    /\ readded = {}
    /\ peer = NoPeer
    /\ selects = NoSelect

\* Mutant: the loop runs in a goroutine started before the recovery.
Serving_FromStart == state \in {"Replaying", "Connected", "Ready"} /\ last.kind = "none"

\* The loop is in its select: recovery is over and no Execute is in progress.
\* With the context cancelled the select has two ready cases and takes either.
Serving == state \in {"Ready", "Cancelled"} /\ last.kind = "none"

\* Start: loadSnapshot, restoreRTree, loadWAL.
StartLoad ==
    /\ state = "Init"
    /\ data' = loadSnapshot(snapshotFile)
    /\ rTree' = restoreRTree(data')
    /\ replay' = loadWAL(walFile)
    /\ state' = "Replaying"
    /\ UNCHANGED <<selects, readded, peer, vclock, walFile, snapshotFile, connections, sinks, pending, last, ops, removing, panicked, request, served>>

\* Mutant: applyWAL goes through applyTransactionAndSave.
ApplyWAL_AndSave ==
    /\ state = "Replaying"
    /\ replay # << >>
    /\ LET r == applyTransactionAndSave(Mem(data, rTree, vclock), walFile, connections, sinks,
                                        Head(replay), "ok", {})
       IN  /\ data' = r.mem.data
           /\ rTree' = r.mem.rTree
           /\ vclock' = r.mem.vclock
           /\ walFile' = r.file
           /\ sinks' = r.out
           /\ last' = Executed("Replay", Head(replay), "none", r.applied)
    /\ replay' = Tail(replay)
    /\ UNCHANGED <<selects, readded, peer, state, snapshotFile, connections, pending, ops, removing, panicked,
                   request, served>>

\* applyWAL: one iteration of its loop.
ApplyWAL ==
    /\ state = "Replaying"
    /\ replay # << >>
    /\ LET a == applyTransaction(Mem(data, rTree, vclock), Head(replay))
       IN  /\ data' = a.mem.data
           /\ rTree' = a.mem.rTree
           /\ vclock' = a.mem.vclock
           /\ last' = Executed("Replay", Head(replay), "none", a.applied)
    /\ replay' = Tail(replay)
    /\ UNCHANGED <<selects, readded, peer, state, walFile, snapshotFile, connections, sinks, pending, ops, removing, panicked, request, served>>

\* connectToReplicas: every replica whose dial succeeds is added to the registry.
ConnectToReplicas ==
    /\ state = "Replaying"
    /\ replay = << >>
    /\ \E dialled \in SUBSET Replicas : connections' = dialled
    /\ state' = "Connected"
    /\ last' = Nothing
    /\ UNCHANGED <<selects, readded, peer, data, rTree, vclock, walFile, snapshotFile, replay, sinks, pending, ops, removing, panicked, request, served>>

\* broadcastAllData, and the loop is entered.
BroadcastAllData ==
    /\ state = "Connected"
    /\ \E txs \in SortedTxs(data) :
          \E fails \in [DOMAIN txs -> SUBSET connections] :
              LET b == BroadcastAll(Self, connections, sinks, txs, fails)
              IN  /\ \A i \in DOMAIN txs : txs[i].Name # Self => fails[i] = {}
                  /\ sinks' = b.out
                  /\ removing' = removing \cup b.scheduled
    /\ state' = "Ready"
    /\ UNCHANGED <<selects, readded, peer, data, rTree, vclock, walFile, snapshotFile, replay, connections, pending,
                   last, ops, panicked, request, served>>

\* The commands issued so far: the executed ones and the stamped ones that
\* wait in "e.commands <- command".
Issued == ops + Cardinality({c \in Callers : pending[c] # 0})

\* Engine.ApplyTransaction up to the enqueue: the caller's goroutine reads
\* e.vclock[e.name] itself and stamps the transaction with it. The action and
\* the feature are arguments nothing reads before the loop executes the
\* command; they are drawn there.
ApplyTransaction(c) ==
    /\ state \in {"Init", "Replaying", "Connected", "Ready", "Cancelled"}
    /\ pending[c] = 0
    /\ Issued < MaxOps
    /\ pending' = [pending EXCEPT ![c] = vclock[Self] + 1]
    /\ UNCHANGED <<selects, readded, peer, state, data, rTree, vclock, walFile, snapshotFile, replay, connections,
                   sinks, last, ops, removing, panicked, request, served>>

\* ApplyCommand.Execute: applyTransactionAndSave, then the reply. The WAL
\* append and the writes to the connections, when the code reaches them,
\* succeed or fail.
ExecuteApply(kind, tx) ==
    \E outcome \in WalOutcomes, failed \in SUBSET connections :
        LET r == applyTransactionAndSave(Mem(data, rTree, vclock), walFile, connections,
                                         sinks, tx, outcome, failed)
            reachesWAL == applyTransaction(Mem(data, rTree, vclock), tx).applied
            reachesBroadcast == reachesWAL /\ outcome = "ok" /\ tx.Name = Self
        IN  /\ (~reachesWAL => outcome = "ok")
            /\ (~reachesBroadcast => failed = {})
            /\ data' = r.mem.data
            /\ rTree' = r.mem.rTree
            /\ vclock' = r.mem.vclock
            /\ walFile' = r.file
            /\ sinks' = r.out
            /\ removing' = removing \cup r.scheduled
            /\ last' = [Executed(kind, tx, IF r.err THEN "Err" ELSE "Ok", r.applied)
                           EXCEPT !.failed = failed]

\* The loop receives the ApplyCommand of a caller of ApplyTransaction.
ApplyLocal(c) ==
    /\ Serving
    /\ pending[c] # 0
    /\ \E action \in Actions, feature \in Payloads :
          ExecuteApply("ApplyLocal", Transaction(action, Self, pending[c], feature))
    /\ pending' = [pending EXCEPT ![c] = 0]
    /\ ops' = ops + 1
    /\ UNCHANGED <<selects, readded, peer, state, snapshotFile, replay, connections, panicked, request, served>>

\* ApplyTransactionRaw called by the replication handler with a peer's message.
ApplyForeign ==
    /\ Serving
    /\ Issued < MaxOps
    /\ \E tx \in Transactions : ExecuteApply("ApplyForeign", tx)
    /\ ops' = ops + 1
    /\ UNCHANGED <<selects, readded, peer, state, snapshotFile, replay, connections, pending, panicked, request, served>>

\* GetAllCommand.Execute.
GetAll ==
    /\ Serving
    /\ last' = Read("GetAll", NoRect, "", getAllData(data), FALSE)
    /\ UNCHANGED <<selects, readded, peer, state, data, rTree, vclock, walFile, snapshotFile, replay, connections,
                   sinks, pending, ops, removing, panicked, request, served>>

\* GetCommand.Execute; a panic of getData ends the process and nothing is replied.
GetRect ==
    /\ Serving
    /\ \E coordinates \in QueryRects :
          LET r == getData(data, rTree, coordinates)
          IN  /\ last' = Read("GetRect", coordinates, "", r.result, FALSE)
              /\ state' = IF r.panic THEN "Crashed" ELSE state
    /\ UNCHANGED <<selects, readded, peer, data, rTree, vclock, walFile, snapshotFile, replay, connections,
                   sinks, pending, ops, removing, panicked, request, served>>

\* ExistsCommand.Execute.
Exists ==
    /\ Serving
    /\ \E ID \in Ids :
          last' = Read("Exists", NoRect, ID, EmptyMap, ID \in DOMAIN getAllData(data))
    /\ UNCHANGED <<selects, readded, peer, state, data, rTree, vclock, walFile, snapshotFile, replay, connections,
                   sinks, pending, ops, removing, panicked, request, served>>

\* SnapshotCommand.Execute.
Snapshot ==
    /\ Serving
    /\ Issued < MaxOps
    /\ \E outcome \in SnapshotOutcomes :
          LET r == makeSnapshot(snapshotFile, walFile, data, outcome)
          IN  /\ snapshotFile' = r.snapshot
              /\ walFile' = r.wal
              /\ last' = Executed("Snapshot", NoTx, IF r.err THEN "Err" ELSE "Ok", FALSE)
    /\ ops' = ops + 1
    /\ UNCHANGED <<selects, readded, peer, state, data, rTree, vclock, replay, connections, sinks, pending, removing, panicked, request, served>>

\* The caller receives from the command's response channel; until then the
\* loop is blocked in Execute on the unbuffered send.
Receive ==
    /\ state \in {"Ready", "Cancelled"}
    /\ last.kind # "none"
    /\ last' = Nothing
    /\ UNCHANGED <<selects, readded, peer, state, data, rTree, vclock, walFile, snapshotFile, replay, connections,
                   sinks, pending, ops, removing, panicked, request, served>>

\* Storage.Stop: s.cancel() closes ctx.Done() while the loop runs.
Cancel ==
    /\ state = "Ready"
    /\ state' = "Cancelled"
    /\ UNCHANGED <<selects, readded, peer, data, rTree, vclock, walFile, snapshotFile, replay, connections, sinks,
                   pending, last, ops, removing, panicked, request, served>>

\* The select takes "case <-e.ctx.Done()": the loop closes the command
\* channel and returns.
Stop ==
    /\ Serving
    /\ state' = "Stopped"
    /\ UNCHANGED <<selects, readded, peer, data, rTree, vclock, walFile, snapshotFile, replay, connections, sinks,
                   pending, last, ops, removing, panicked, request, served>>

\* A caller's "e.commands <- command" when the loop has closed the channel,
\* whether the caller was blocked in the send or arrives after the stop:
\* a send on a closed channel panics.
SendOnClosed(c) ==
    /\ state = "Stopped"
    /\ c \notin panicked
    /\ panicked' = panicked \cup {c}
    /\ pending' = [pending EXCEPT ![c] = 0]
    /\ UNCHANGED <<selects, readded, peer, state, data, rTree, vclock, walFile, snapshotFile, replay, connections,
                   sinks, last, removing, ops, request, served>>

\* A "go r.Remove(replica)" goroutine gets the registry's lock.
Remove(r) ==
    /\ r \in removing
    /\ removing' = removing \ {r}
    /\ connections' = connections \ {r}
    /\ readded' = readded \ {r}
    /\ UNCHANGED <<selects, peer, state, data, rTree, vclock, walFile, snapshotFile, replay, sinks, pending,
                   last, panicked, ops, request, served>>

\* The process ends (stopped, crashed or killed) and main runs again:
\* NewEngine over the same two files.
Restart ==
    /\ state # "Init"
    /\ state' = "Init"
    /\ data' = EmptyMap
    /\ rTree' = EmptyBag
    /\ vclock' = EmptyVClock
    /\ replay' = << >>
    /\ connections' = {}
    /\ sinks' = NoSinks
    /\ pending' = [c \in Callers |-> 0]
    /\ last' = Nothing
    /\ removing' = {}
    /\ panicked' = {}
    /\ request' = [c \in Callers |-> NoRequest]
    /\ readded' = {}
    /\ peer' = [peer EXCEPT !.read = 0]
    /\ UNCHANGED <<selects, walFile, snapshotFile, served, ops>>

\* upsertHandler and deleteHandler up to their first call of the engine:
\* "Missing field ID" is answered 400; when feature.ID is not a string the
\* handler evaluates err.Error() on the nil err UnmarshalFeature returned and
\* panics; insert goes straight to ApplyTransaction, replace and delete ask
\* Exists first.
validate(method, body) ==
    IF body.type = "nil" THEN Handling(method, body, "done", StatusBadRequest)
    ELSE IF body.type # "string" THEN Handling(method, body, "panicked", 0)
    ELSE IF method = "insert" THEN Handling(method, body, "apply", 0)
    ELSE Handling(method, body, "exists", 0)

\* A request reaches insertHandler, replaceHandler or deleteHandler of the leader.
Serve(c) ==
    /\ state = "Ready"
    /\ request[c].phase = "none"
    /\ served < MaxRequests
    /\ \E method \in Methods, body \in Bodies :
          request' = [request EXCEPT ![c] = validate(method, body)]
    /\ served' = served + 1
    /\ UNCHANGED <<selects, readded, peer, state, data, rTree, vclock, walFile, snapshotFile, replay, connections,
                   sinks, pending, last, removing, panicked, ops>>

\* s.engine.Exists(ID) of replaceHandler and deleteHandler: the loop executes
\* the ExistsCommand and the handler takes the reply.
ExistsRequest(c) ==
    /\ Serving
    /\ request[c].phase = "exists"
    /\ LET exists == request[c].body.feature.ID \in DOMAIN getAllData(data)
       IN  request' = [request EXCEPT ![c] =
                         IF exists THEN [@ EXCEPT !.phase = "apply"]
                         ELSE [@ EXCEPT !.phase = "done", !.status = StatusNotFound]]
    /\ UNCHANGED <<selects, readded, peer, state, data, rTree, vclock, walFile, snapshotFile, replay, connections,
                   sinks, pending, last, removing, panicked, served, ops>>

\* s.engine.ApplyTransaction up to the enqueue, in the handler's goroutine.
StampRequest(c) ==
    /\ request[c].phase = "apply"
    /\ pending[c] = 0
    /\ pending' = [pending EXCEPT ![c] = vclock[Self] + 1]
    /\ UNCHANGED <<selects, readded, peer, state, data, rTree, vclock, walFile, snapshotFile, replay, connections,
                   sinks, last, removing, panicked, request, served, ops>>

\* The loop executes the handler's ApplyCommand; the handler writes 500 when
\* the reply is an error (deleteHandler's later WriteHeader(200) comes after
\* the header is out) and 200 otherwise.
ApplyRequest(c) ==
    /\ Serving
    /\ request[c].phase = "apply"
    /\ pending[c] # 0
    /\ ExecuteApply("ApplyLocal",
                    Transaction(IF request[c].method = "delete" THEN Delete ELSE Upsert,
                                Self, pending[c], request[c].body.feature))
    /\ pending' = [pending EXCEPT ![c] = 0]
    /\ request' = [request EXCEPT ![c] =
                      [@ EXCEPT !.phase = "done",
                                !.status = IF last'.reply = "Err"
                                           THEN StatusInternalServerError ELSE StatusOK]]
    /\ UNCHANGED <<selects, readded, peer, state, snapshotFile, replay, connections, panicked, served, ops>>

\* The client has its response, or the connection net/http closed after
\* recovering the handler's panic.
Respond(c) ==
    /\ request[c].phase \in {"done", "panicked"}
    /\ request' = [request EXCEPT ![c] = NoRequest]
    /\ UNCHANGED <<selects, readded, peer, state, data, rTree, vclock, walFile, snapshotFile, replay, connections,
                   sinks, pending, last, removing, panicked, served, ops>>

\* The node serving its own callers: every step but a peer's message.
NextLocal ==
    \/ StartLoad
    \/ ApplyWAL
    \/ ConnectToReplicas
    \/ BroadcastAllData
    \/ \E c \in Callers : ApplyTransaction(c)
    \/ \E c \in Callers : ApplyLocal(c)
    \/ GetAll
    \/ GetRect
    \/ Exists
    \/ Snapshot
    \/ Receive
    \/ Stop
    \/ \E c \in Callers : SendOnClosed(c)
    \/ \E r \in Replicas : Remove(r)
    \/ Restart

Next ==
    \/ NextLocal
    \/ ApplyForeign

Spec == Init /\ [][Next]_vars

\* The WAL file between two runs of the node: records are appended, a write
\* is torn by a crash, and the next Start loads the file.
MaxLines == 3

\* A LineString of so many positions that its record exceeds MaxScanTokenSize.
LongLinePoints == 10923

LongLineString == [i \in 1..LongLinePoints |-> <<1, 1>>]

WalTransactions ==
    {Transaction(Upsert, Self, 1, [ID |-> "a", Geometry |-> <<1, 1>>]),
     Transaction(Delete, Self, 2, [ID |-> "a", Geometry |-> <<1, 1>>]),
     Transaction(Upsert, Self, 3, [ID |-> "b", Geometry |-> LongLineString])}

\* What a Write cut short by a crash leaves as a line.
TornLine == <<"{">>

InitWAL ==
    /\ state = "Init"
    /\ data = EmptyMap
    /\ rTree = EmptyBag
    /\ vclock = EmptyVClock
    /\ walFile \in {NoFile, [exists |-> TRUE, lines |-> << >>],
                    [exists |-> TRUE, lines |-> <<TornLine>>]}
    /\ snapshotFile = NoSnapshot
    /\ replay = << >>
    /\ connections = {}
    /\ sinks = NoSinks
    /\ pending = [c \in Callers |-> 0]
    /\ last = Nothing
    /\ removing = {}
    /\ panicked = {}
    /\ request = [c \in Callers |-> NoRequest]
    /\ served = 0
    /\ ops = 0
    /\ readded = {}
    /\ peer = NoPeer
    /\ selects = NoSelect

SaveTransactionToWAL ==
    /\ state = "Init"
    /\ Len(walFile.lines) < MaxLines
    /\ \E tx \in WalTransactions, outcome \in WalOutcomes :
          walFile' = saveTransactionToWAL(walFile, tx, outcome).file
    /\ UNCHANGED <<selects, readded, peer, state, data, rTree, vclock, snapshotFile, replay, connections, sinks,
                   pending, last, ops, removing, panicked, request, served>>

TornWrite ==
    /\ state = "Init"
    /\ Len(walFile.lines) < MaxLines
    /\ walFile' = [exists |-> TRUE, lines |-> Append(walFile.lines, TornLine)]
    /\ UNCHANGED <<selects, readded, peer, state, data, rTree, vclock, snapshotFile, replay, connections, sinks,
                   pending, last, ops, removing, panicked, request, served>>

NextWAL ==
    \/ SaveTransactionToWAL
    \/ TornWrite
    \/ StartLoad

SpecWAL == InitWAL /\ [][NextWAL]_vars

\* The goroutine of the peer's replicationHandler: conn.ReadMessage returns
\* the next message this node wrote, and ApplyTransactionRaw hands it to the
\* peer's engine.
Deliver ==
    /\ peer.read < Len(sinks[Peer])
    /\ peer' = [mem |-> applyTransaction(peer.mem, sinks[Peer][peer.read + 1]).mem,
                read |-> peer.read + 1]
    /\ UNCHANGED <<selects, state, data, rTree, vclock, walFile, snapshotFile, replay, connections,
                   sinks, pending, last, removing, panicked, request, served, ops, readded>>

\* A leader started on empty files that takes local writes, and the peer
\* reading its sink.
NextLeader ==
    \/ StartLoad
    \/ ConnectToReplicas
    \/ BroadcastAllData
    \/ \E c \in Callers : ApplyTransaction(c)
    \/ \E c \in Callers : ApplyLocal(c)
    \/ Receive
    \/ \E r \in Replicas : Remove(r)
    \/ Deliver

SpecLeader == Init /\ [][NextLeader]_vars

\* The same leader across restarts: every Start replays the WAL, dials the
\* replicas again and rebroadcasts, while the peer keeps what it has applied.
NextCatchUp ==
    \/ NextLeader
    \/ ApplyWAL
    \/ Restart

SpecCatchUp == Init /\ [][NextCatchUp]_vars

\* snapshotHandler: a request for /snapshot runs MakeSnapshot in the loop.
SnapshotRequest ==
    /\ Serving
    /\ served < MaxRequests
    /\ \E outcome \in SnapshotOutcomes :
          LET r == makeSnapshot(snapshotFile, walFile, data, outcome)
          IN  /\ snapshotFile' = r.snapshot
              /\ walFile' = r.wal
              /\ last' = Executed("Snapshot", NoTx, IF r.err THEN "Err" ELSE "Ok", FALSE)
    /\ served' = served + 1
    /\ UNCHANGED <<selects, state, data, rTree, vclock, replay, connections, sinks, pending, removing,
                   panicked, request, ops, readded, peer>>

\* The node over its two files across restarts: local writes, snapshots
\* asked for over HTTP, and Start recovering from what is on disk.
NextDurable ==
    \/ StartLoad
    \/ ApplyWAL
    \/ ConnectToReplicas
    \/ BroadcastAllData
    \/ \E c \in Callers : ApplyTransaction(c)
    \/ \E c \in Callers : ApplyLocal(c)
    \/ SnapshotRequest
    \/ Receive
    \/ \E r \in Replicas : Remove(r)
    \/ Restart

SpecDurable == Init /\ [][NextDurable]_vars

\* Redirects a client follows before it gives up.
MaxHops == 5

\* redirectIfNeeded and the rest of selectHandler, for a request with the
\* given query when s.curSelects has the given value: strconv.Atoi fails on
\* an absent ttl; r.URL.Query() parses RawQuery into a new map, so the Set of
\* ttl-1 changes that map only and the Location carries r.URL.RawQuery as it
\* was received.
selectHandler(query, curSelects) ==
    LET ttl == IF query.present THEN query.value ELSE MaxRedirects
        values == Ttl(ttl - 1)
        RawQuery == query
    IN  IF curSelects < MaxRedirects THEN [status |-> StatusOK, query |-> query]
        ELSE IF ttl <= 0 THEN [status |-> StatusTooManyRequests, query |-> query]
        ELSE [status |-> StatusTemporaryRedirect, query |-> RawQuery]

\* A client sends a select to a storage, with or without a ttl of its own.
SelectArrives ==
    /\ selects = NoSelect
    /\ \E node \in Storages, ttl \in {NoTtl} \cup {Ttl(n) : n \in 0..MaxRedirects} :
          selects' = Select(node, ttl, 0, 0)
    /\ UNCHANGED <<state, data, rTree, vclock, walFile, snapshotFile, replay, connections,
                   sinks, pending, last, removing, panicked, request, served, ops, readded,
                   peer>>

\* The storage named by the request's URL handles it while curSelects of its
\* selectHandlers are running (this one included); on a 307 the client goes
\* on to the Location: one of s.replicas, with the query the redirect carries.
SelectHandled ==
    /\ selects.node \in Storages
    /\ selects.status \in {0, StatusTemporaryRedirect}
    /\ selects.hops < MaxHops
    /\ \E curSelects \in 1..(MaxRedirects + 1), replica \in Storages \ {selects.node} :
          LET r == selectHandler(selects.ttl, curSelects)
          IN  selects' = IF r.status = StatusTemporaryRedirect
                         THEN Select(replica, r.query, selects.hops + 1, r.status)
                         ELSE Select(selects.node, selects.ttl, selects.hops, r.status)
    /\ UNCHANGED <<state, data, rTree, vclock, walFile, snapshotFile, replay, connections,
                   sinks, pending, last, removing, panicked, request, served, ops, readded,
                   peer>>

NextSelect ==
    \/ SelectArrives
    \/ SelectHandled

SpecSelect == Init /\ [][NextSelect]_vars

\* ReplicaRegistry.Add: r.connections[name] = conn, whatever was registered
\* under the name and whatever "go r.Remove(name)" is still to run.
Add(r) ==
    /\ connections' = connections \cup {r}
    /\ sinks' = [sinks EXCEPT ![r] = << >>]
    /\ readded' = IF r \in removing THEN readded \cup {r} ELSE readded \ {r}
    /\ peer' = IF r = Peer THEN [peer EXCEPT !.read = 0] ELSE peer
    /\ UNCHANGED <<selects, state, data, rTree, vclock, walFile, snapshotFile, replay, pending, last,
                   removing, panicked, request, served, ops>>

\* ReplicaRegistry.Broadcast called with any transaction.
RegistryBroadcast ==
    /\ ops < MaxOps
    /\ \E name \in Origins, action \in Actions, failed \in SUBSET connections :
          LET tx == Transaction(action, name, ops + 1, [ID |-> "a", Geometry |-> <<1, 1>>])
              b == Broadcast(Self, connections, sinks, tx, failed)
          IN  /\ sinks' = b.out
              /\ removing' = removing \cup b.scheduled
              /\ readded' = readded \ b.scheduled
    /\ ops' = ops + 1
    /\ UNCHANGED <<selects, state, data, rTree, vclock, walFile, snapshotFile, replay, connections,
                   pending, last, panicked, request, served, peer>>

\* The registry under any interleaving of the calls of its three methods.
NextRegistry ==
    \/ \E r \in Replicas : Add(r)
    \/ RegistryBroadcast
    \/ \E r \in Replicas : Remove(r)

SpecRegistry == Init /\ [][NextRegistry]_vars

\* The node with the cancellation of its context as a step of its own.
NextCancel ==
    \/ Next
    \/ Cancel

SpecCancel == Init /\ [][NextCancel]_vars

\* The same node when no peer sends it anything.
SpecLocal == Init /\ [][NextLocal]_vars

\* The leader behind its HTTP handlers: every write comes from insertHandler,
\* replaceHandler or deleteHandler.
NextStorage ==
    \/ StartLoad
    \/ ConnectToReplicas
    \/ BroadcastAllData
    \/ \E c \in Callers : Serve(c)
    \/ \E c \in Callers : ExistsRequest(c)
    \/ \E c \in Callers : StampRequest(c)
    \/ \E c \in Callers : ApplyRequest(c)
    \/ \E c \in Callers : Respond(c)
    \/ Receive
    \/ \E r \in Replicas : Remove(r)

SpecStorage == Init /\ [][NextStorage]_vars

\* The replication path of a node that keeps running: the applies and the
\* registry's goroutines.
NextReplication ==
    \/ StartLoad
    \/ ConnectToReplicas
    \/ BroadcastAllData
    \/ \E c \in Callers : ApplyTransaction(c)
    \/ \E c \in Callers : ApplyLocal(c)
    \/ ApplyForeign
    \/ Receive
    \/ \E r \in Replicas : Remove(r)

\* A started "go r.Remove(replica)" goroutine is scheduled and gets the
\* registry's mutex, which Broadcast releases when its loop ends.
SpecFair == Init /\ [][NextReplication]_vars /\ \A r \in Replicas : WF_vars(Remove(r))

(* ------------------------------- claims -------------------------------- *)

\* The loop has just executed an ApplyCommand (ApplyLocal or ApplyForeign).
ApplyCommandStep == last.kind = "none" /\ last'.kind \in {"ApplyLocal", "ApplyForeign"}

\* applyWAL has just replayed one WAL record.
ReplayStep == state = "Replaying" /\ state' = "Replaying" /\ replay' # replay

\* C1: every apply (ApplyLocal, ApplyForeign, each replayed WAL record) applies
\* T iff T.lsn > V[T.origin] when the loop processes it; an applied T sets
\* V[T.origin] to T.lsn, leaves V of every other origin alone, and sets
\* data[T.id] to (T.origin, T.lsn, T.payload) for Upsert or removes it for Delete.
C1_AppliedIffDominant ==
    [][(ApplyCommandStep \/ ReplayStep) =>
        LET T == last'.tx
            ID == T.Feature.ID
        IN  /\ last'.applied <=> T.Lsn > vclock[T.Name]
            /\ ~(T.Lsn > vclock[T.Name]) => UNCHANGED <<data, rTree, vclock>>
            /\ T.Lsn > vclock[T.Name] =>
                  /\ vclock'[T.Name] = T.Lsn
                  /\ \A o \in Origins \ {T.Name} : vclock'[o] = vclock[o]
                  /\ T.Action = Upsert =>
                        ID \in DOMAIN data' /\ data'[ID] = Feature(T.Name, T.Lsn, T.Feature)
                  /\ T.Action = Delete => ID \notin DOMAIN data'
    ]_vars

\* C1 witness: with V[peer] = 1, a foreign Delete with lsn 2 was applied and
\* V[peer] is 2 (scenario S5).
C1_Witness ==
    /\ last.kind = "ApplyForeign" /\ last.applied
    /\ last.tx.Name = "storage-1-2" /\ last.tx.Lsn = 2 /\ last.tx.Action = Delete
    /\ Len(walFile.lines) = 2
    /\ walFile.lines[1][2] = "storage-1-2" /\ walFile.lines[1][3] = 1
    /\ vclock["storage-1-2"] = 2

\* C2: applying T with T.lsn <= V[T.origin] replies Ok, leaves data, the
\* R-tree, V and the WAL file unchanged and writes to no sink; after any
\* ApplyCommand of T, T is no longer dominant, so that applying T a second
\* time gives the state, WAL and sink sequences of applying it once.
C2_Idempotent ==
    /\ [][ApplyCommandStep =>
            LET T == last'.tx
            IN  /\ T.Lsn <= vclock[T.Name] =>
                      /\ last'.reply = "Ok"
                      /\ UNCHANGED <<data, rTree, vclock, walFile, sinks>>
                /\ T.Lsn <= vclock'[T.Name]
       ]_vars
    /\ []((state = "Ready" /\ last.kind = "none" /\ removing = {}
                /\ \A c \in Callers : pending[c] = 0) =>
            \A T \in Transactions \cup {Transaction(a, Self, vclock[Self] + 1, f) :
                                           a \in Actions, f \in Payloads} :
              \A o1, o2 \in WalOutcomes, failed \in SUBSET connections :
                LET once  == applyTransactionAndSave(Mem(data, rTree, vclock), walFile,
                                                     connections, sinks, T, o1, failed)
                    twice == applyTransactionAndSave(once.mem, once.file, connections,
                                                     once.out, T, o2, failed)
                IN  /\ ~twice.err
                    /\ twice.scheduled = {}
                    /\ twice.mem = once.mem
                    /\ twice.file = once.file
                    /\ twice.out = once.out)

\* C2 witness: a transaction already in the WAL was handed to ApplyForeign
\* again with both replicas connected; it was not applied and Ok was replied.
C2_Witness ==
    /\ last.kind = "ApplyForeign" /\ ~last.applied /\ last.reply = "Ok"
    /\ connections = Replicas
    /\ \E i \in DOMAIN walFile.lines : walFile.lines[i] = MarshalTx(last.tx)

\* C3 (as claimed): in every state of a running engine every feature F of
\* data has V[F.origin] >= F.lsn.
C3_DataBelowVClock ==
    state = "Ready" => \A id \in DOMAIN data : vclock[data[id].Name] >= data[id].LSN

\* C4 (as claimed): the R-tree holds exactly one entry per id of data, with
\* the feature's current bounding rectangle, and no entry for any other id.
C4_RTreeMatchesData ==
    /\ \A id \in DOMAIN data : CopiesIn(Entry(data[id].Feature), rTree) = 1
    /\ \A e \in BagToSet(rTree) : e.data \in DOMAIN data /\ e = Entry(data[e.data].Feature)

Intersects(feature, coordinates) ==
    LET b == computeBoundsForRTree(feature)
    IN  /\ b.leftBottom[1] <= coordinates[3] /\ coordinates[1] <= b.topRight[1]
        /\ b.leftBottom[2] <= coordinates[4] /\ coordinates[2] <= b.topRight[2]

\* C5 (as claimed): GetRect replies exactly the features of data whose
\* current bounding rectangle intersects the query rectangle.
C5_GetRectExact ==
    (last.kind = "GetRect" /\ state = "Ready") =>
        last.result = [id \in {x \in DOMAIN data : Intersects(data[x].Feature, last.coordinates)}
                          |-> data[id].Feature]

\* C6 (as claimed): an Apply whose WAL append fails replies Err and leaves
\* data, the R-tree and V as they were before the command was dequeued.
C6_WalFailureLeavesMemory ==
    [][(ApplyCommandStep /\ last'.reply = "Err") => UNCHANGED <<data, rTree, vclock>>]_vars

\* C7 (as claimed): after Snapshot replies Ok the WAL file is empty and
\* an engine restarted from the two files has the same data and the same V.
C7_SnapshotRestartSameState ==
    (last.kind = "Snapshot" /\ last.reply = "Ok") =>
        /\ walFile.lines = << >>
        /\ Recover(snapshotFile, walFile).data = data
        /\ Recover(snapshotFile, walFile).vclock = vclock

\* C8 (as claimed): with no snapshot taken, replaying the WAL against the
\* empty state gives the data, V and R-tree the engine has.
C8_ReplayEqualsState ==
    (state = "Ready" /\ ~snapshotFile.exists) =>
        Recover(snapshotFile, walFile) = Mem(data, rTree, vclock)

\* C9 (as claimed): when ApplyLocal replies Ok, what GetAll returns from then
\* on holds the payload of an Upsert under its id, and lacks the id of a Delete.
C9_OkIsVisible ==
    (last.kind = "ApplyLocal" /\ last.reply = "Ok") =>
        LET all == getAllData(data)
            ID  == last.tx.Feature.ID
        IN  /\ last.tx.Action = Upsert => ID \in DOMAIN all /\ all[ID] = last.tx.Feature
            /\ last.tx.Action = Delete => ID \notin DOMAIN all

\* C10: an ApplyLocal that is applied and whose WAL append succeeds appends
\* its transaction, when every write to a sink succeeds, exactly once to the
\* messages of every registered sink (and writes nothing else to any sink).
C10_EachSinkOnce ==
    [][(ApplyCommandStep /\ last'.kind = "ApplyLocal" /\ last'.applied /\ last'.reply = "Ok"
            /\ last'.failed = {}) =>
        \A r \in Replicas :
            sinks'[r] = IF r \in connections THEN Append(sinks[r], last'.tx) ELSE sinks[r]
    ]_vars

\* C10 witness: with both replicas connected an applied ApplyLocal was
\* replied Ok and each sink holds that transaction once.
C10_Witness ==
    /\ last.kind = "ApplyLocal" /\ last.applied /\ last.reply = "Ok" /\ last.failed = {}
    /\ connections = Replicas
    /\ \A r \in Replicas : sinks[r] = <<last.tx>>

\* C11 (as claimed): ApplyForeign writes to no sink and schedules no removal,
\* whatever origin and lsn its transaction carries.
C11_ForeignNeverBroadcasts ==
    [][(ApplyCommandStep /\ last'.kind = "ApplyForeign") => UNCHANGED <<sinks, removing>>]_vars

\* C12 (as claimed): once the engine is told to stop, no caller of a public
\* operation, blocked in the enqueue or calling afterwards, crashes.
C12_NoCallerCrashes == panicked = {}

\* C13 (as claimed): GetAll, GetRect and Exists reply in every state of a
\* Ready engine; none of them stops the engine loop.
C13_ReadsAlwaysReply == state # "Crashed"

\* The loop has just executed a SnapshotCommand.
SnapshotStep == last.kind = "none" /\ last'.kind = "Snapshot"

\* C14: Snapshot leaves data, the R-tree and V alone in every outcome; it
\* changes the WAL only when the snapshot file holds the serialised data, and
\* then the WAL is empty; when the snapshot file was not written it replies Err
\* and the WAL is as before. In every state, a Snapshot whose write of the
\* snapshot file fails replies Err with the WAL unchanged.
C14_TruncateAfterSnapshot ==
    /\ [][SnapshotStep =>
            LET written == [exists |-> TRUE, content |-> MarshalData(data)]
            IN  /\ UNCHANGED <<data, rTree, vclock>>
                /\ walFile' # walFile => snapshotFile' = written /\ walFile'.lines = << >>
                /\ snapshotFile' # written => last'.reply = "Err" /\ walFile' = walFile
                /\ last'.reply = "Ok" => snapshotFile' = written /\ walFile'.lines = << >>
       ]_vars
    /\ [](LET r == makeSnapshot(snapshotFile, walFile, data, "fail")
          IN  r.err /\ r.wal = walFile /\ r.snapshot = snapshotFile)

\* C14 witness: a Snapshot whose write failed replied Err, no snapshot file
\* exists and the WAL still holds its record.
C14_Witness ==
    /\ last.kind = "Snapshot" /\ last.reply = "Err"
    /\ ~snapshotFile.exists
    /\ Len(walFile.lines) = 1

\* C15: an ApplyCommand replies Err iff its transaction was dominant and the
\* WAL append failed (the WAL is as before); otherwise it replies Ok, whatever
\* the writes to the sinks returned.
C15_ErrIffWalFailed ==
    [][ApplyCommandStep =>
        LET T == last'.tx
        IN  /\ last'.reply \in {"Ok", "Err"}
            /\ last'.reply = "Err" <=> (T.Lsn > vclock[T.Name] /\ walFile' = walFile)
    ]_vars

\* C15 witness: after an ApplyLocal that replied Ok although a write to a
\* sink failed, a dominant transaction whose WAL append failed was replied Err.
C15_Witness ==
    /\ last.kind \in {"ApplyLocal", "ApplyForeign"} /\ last.reply = "Err" /\ last.applied
    /\ Len(walFile.lines) = 1
    /\ removing # {}

\* C16: when a write of a broadcast fails, the same broadcast appends the
\* transaction to every other registered sink, the ApplyLocal replies Ok, a
\* removal of the failing replica is scheduled; every scheduled removal
\* leads to the replica being out of the registry.
C16_FailingSinkRemoved ==
    /\ [][(ApplyCommandStep /\ last'.kind = "ApplyLocal" /\ last'.failed # {}) =>
            /\ last'.reply = "Ok"
            /\ last'.failed \subseteq removing'
            /\ \A r \in Replicas :
                  sinks'[r] = IF r \in connections \ last'.failed
                              THEN Append(sinks[r], last'.tx) ELSE sinks[r]
       ]_vars
    /\ \A r \in Replicas : (r \in removing) ~> (r \notin connections)

\* C16 witness: with both replicas connected, the write to one failed; the
\* other sink holds the transaction, Ok was replied and the removal is scheduled.
C16_Witness ==
    /\ last.kind = "ApplyLocal" /\ last.reply = "Ok"
    /\ connections = Replicas
    /\ last.failed = {"storage-1-2"}
    /\ removing = {"storage-1-2"}
    /\ sinks["storage-1-3"] = <<last.tx>> /\ sinks["storage-1-2"] = << >>

\* Caller c's handler has just got the reply of s.engine.Exists.
ExistsRequestStep(c) == request[c].phase = "exists" /\ request'[c].phase # "exists"

\* The loop has just executed the ApplyCommand of caller c's handler.
ApplyRequestStep(c) == request[c].phase = "apply" /\ request'[c].phase = "done"

\* C17 (as claimed): a replace or delete of an absent id is answered 404 and
\* changes nothing; one of a present id goes on to the engine and is answered
\* 200 (500 only when the WAL append failed); after a delete answered 200 the
\* id is absent, so that a following delete of it is answered 404.
C17_NotFoundForAbsent ==
    [][\A c \in Callers :
        LET ID == request[c].body.feature.ID
        IN  /\ ExistsRequestStep(c) =>
                  /\ ID \notin DOMAIN data =>
                        /\ request'[c].phase = "done"
                        /\ request'[c].status = StatusNotFound
                        /\ UNCHANGED <<data, rTree, vclock, walFile>>
                  /\ ID \in DOMAIN data => request'[c].phase = "apply"
            /\ (ApplyRequestStep(c) /\ request[c].method \in {"replace", "delete"}) =>
                  /\ request'[c].status = StatusOK \/ walFile' = walFile
                  /\ (request[c].method = "delete" /\ request'[c].status = StatusOK) =>
                        ID \notin DOMAIN data'
    ]_vars

\* C18 (as claimed): an insert or replace whose feature has no id, or an id
\* that is not a string, is answered 400 and changes neither the stored
\* features nor V nor the WAL.
C18_InvalidPayloadRejected ==
    [][\A c \in Callers :
        (request[c].phase = "none" /\ request'[c].phase # "none"
            /\ request'[c].method \in {"insert", "replace"}
            /\ request'[c].body.type # "string") =>
                /\ request'[c].phase = "done"
                /\ request'[c].status = StatusBadRequest
                /\ UNCHANGED <<data, rTree, vclock, walFile>>
    ]_vars

\* C19 (as claimed): an insert of an id that is present is answered 200 (500
\* only when the WAL append failed) and, when answered 200, the one feature
\* stored under the id is the inserted one.
C19_InsertOverwrites ==
    [][\A c \in Callers :
        LET ID == request[c].body.feature.ID
        IN  (ApplyRequestStep(c) /\ request[c].method = "insert" /\ ID \in DOMAIN data) =>
                /\ request'[c].status = StatusOK \/ walFile' = walFile
                /\ request'[c].status = StatusOK =>
                      /\ ID \in DOMAIN getAllData(data')
                      /\ getAllData(data')[ID] = request[c].body.feature
    ]_vars

\* C20 (as claimed): every locally originated transaction the loop executes
\* carries lsn = V[self] + 1 for the V[self] of that moment, and so passes the
\* dominance check and shares its lsn with no other local transaction.
C20_LocalLsnIsNext ==
    [][(ApplyCommandStep /\ last'.kind = "ApplyLocal") =>
            last'.tx.Lsn = vclock[Self] + 1 /\ last'.applied
    ]_vars

\* C22: the WAL changes only by an applied ApplyCommand appending its record
\* at the end, or by a Snapshot emptying it: records stay in the order in
\* which their transactions were applied.
C22_WalInApplyOrder ==
    [][\/ walFile' = walFile
       \/ /\ ApplyCommandStep /\ last'.applied /\ last'.reply = "Ok"
          /\ walFile'.exists
          /\ walFile'.lines = Append(walFile.lines, MarshalTx(last'.tx))
       \/ /\ SnapshotStep /\ last'.reply = "Ok"
          /\ walFile'.lines = << >>
    ]_vars

\* C22 witness: the record of the transaction applied second follows the
\* record of the one applied first.
C22_Witness ==
    /\ last.kind \in {"ApplyLocal", "ApplyForeign"} /\ last.applied /\ last.reply = "Ok"
    /\ Len(walFile.lines) = 2
    /\ walFile.lines[2] = MarshalTx(last.tx)
    /\ walFile.lines[1] # walFile.lines[2]

\* C23: a command is executed only by a Ready engine; Ready is entered from
\* Connected (rebroadcast done), Connected from Replaying with the replay
\* finished, Replaying from Init with the snapshot loaded and the R-tree
\* rebuilt; while the engine recovers, a caller's stamped call stays queued.
C23_NoCommandBeforeReady ==
    [][/\ (last' # last /\ last'.kind \notin {"none", "Replay"}) => state = "Ready"
       /\ (state' = "Ready" /\ state # "Ready") => state = "Connected"
       /\ (state' = "Connected" /\ state # "Connected") =>
              state = "Replaying" /\ replay = << >>
       /\ (state' = "Replaying" /\ state # "Replaying") =>
              /\ state = "Init"
              /\ data' = loadSnapshot(snapshotFile)
              /\ rTree' = restoreRTree(data')
              /\ replay' = loadWAL(walFile)
       /\ (state \in {"Init", "Replaying", "Connected"} /\ state' # "Init") =>
              \A c \in Callers : pending[c] # 0 => pending'[c] = pending[c]
    ]_vars

\* C23 witness: a caller has stamped its transaction while the WAL is still
\* being replayed; its command waits.
C23_Witness ==
    /\ state = "Replaying" /\ replay # << >>
    /\ \E c \in Callers : pending[c] # 0

\* C25: from NewEngine to the end of the replay nothing is appended to the
\* WAL and nothing is written to a sink; every replayed record goes through
\* the dominance check.
C25_ReplayIsSilent ==
    [][/\ state \in {"Init", "Replaying"} => UNCHANGED <<walFile, sinks, removing>>
       /\ ReplayStep => (last'.applied <=> last'.tx.Lsn > vclock[last'.tx.Name])
    ]_vars

\* C25 witness: the second of two WAL records has just been replayed and
\* applied; the WAL holds its two records and no sink holds anything.
C25_Witness ==
    /\ state = "Replaying" /\ replay = << >>
    /\ last.kind = "Replay" /\ last.applied
    /\ Len(walFile.lines) = 2
    /\ sinks = NoSinks

\* The synthetic Upserts of the features this node originated.
OwnUpserts(d) ==
    {Transaction(Upsert, Self, d[id].LSN, d[id].Feature) : id \in {x \in DOMAIN d : d[x].Name = Self}}

\* C26: the startup rebroadcast, made after the dial and before the loop,
\* writes to every connected sink whose writes succeed exactly the synthetic
\* Upserts of the features of data this node originated, each once with the
\* stored lsn, in ascending lsn order; a sink of a failed write gets some of
\* them in that order; nothing else is written.
C26_StartupRebroadcast ==
    [][(state = "Connected" /\ state' = "Ready") =>
        \A r \in Replicas :
            LET new == SubSeq(sinks'[r], Len(sinks[r]) + 1, Len(sinks'[r]))
            IN  /\ SubSeq(sinks'[r], 1, Len(sinks[r])) = sinks[r]
                /\ r \notin connections => new = << >>
                /\ \A i \in DOMAIN new : new[i] \in OwnUpserts(data)
                /\ \A i, j \in DOMAIN new : i < j => new[i].Lsn <= new[j].Lsn /\ new[i] # new[j]
                /\ r \in connections \ removing' => Len(new) = Cardinality(OwnUpserts(data))
    ]_vars

\* C26 witness: after a restart that replayed an Upsert of a as a point
\* (lsn 1) and one as a line (lsn 2), both sinks hold the one synthetic
\* Upsert of a with lsn 2.
C26_Witness ==
    /\ state = "Ready" /\ connections = Replicas /\ removing = {}
    /\ vclock[Self] = 2
    /\ \A r \in Replicas :
          sinks[r] = <<Transaction(Upsert, Self, 2, [ID |-> "a", Geometry |-> << <<2, 3>>, <<3, 2>> >>])>>

\* C24: once the context is cancelled the loop executes no further command
\* (the reply of the one in progress is received and nothing else happens to
\* last), and a stopped loop never executes one.
C24_NoCommandAfterCancel ==
    [][(state \in {"Cancelled", "Stopped"}) => (last' = last \/ last'.kind = "none")]_vars

\* The records of the well-formed lines of a file, in file order.
RECURSIVE RecordsOf(_)
RecordsOf(lines) ==
    IF lines = << >> THEN << >>
    ELSE (IF Len(Head(lines)) = 4
          THEN <<Transaction(Head(lines)[1], Head(lines)[2], Head(lines)[3], Head(lines)[4])>>
          ELSE << >>) \o RecordsOf(Tail(lines))

\* C30: what Start loads from the WAL is exactly the records of the
\* well-formed lines of the file, in file order; an absent file loads as the
\* empty sequence.
C30_LoadReturnsRecords ==
    state = "Replaying" =>
        replay = IF walFile.exists THEN RecordsOf(walFile.lines) ELSE << >>

\* C29: a connection leaves the registry only after a write to that very
\* connection failed: the eviction scheduled for the previous connection of a
\* name does not remove the one registered under the name since.
C29_ReconnectSurvivesEviction ==
    [][\A r \in Replicas : (r \in connections /\ r \notin connections') => r \notin readded]_vars

\* What a data map holds for each id.
PayloadsOf(d) == [id \in DOMAIN d |-> d[id].Feature]

\* Every change of the memory reached the WAL: recovering from the files
\* gives the data and the vector clock the engine holds.
AllAppended ==
    LET m == Recover(snapshotFile, walFile)
    IN  m.data = data /\ m.vclock = vclock

\* The sink of Peer has had no failed write and Peer has applied everything
\* written to it.
PeerCaughtUp ==
    /\ state = "Ready"
    /\ Peer \in connections \ removing
    /\ peer.read = Len(sinks[Peer])

\* C27: when the leader's WAL appends all succeeded, the sink of a peer that
\* started empty has delivered every message and the peer has applied them,
\* the peer's data map (id -> payload) and its V[leader] equal the leader's.
C27_ReplicaConverges ==
    (PeerCaughtUp /\ AllAppended) =>
        /\ PayloadsOf(peer.mem.data) = PayloadsOf(data)
        /\ peer.mem.vclock[Self] = vclock[Self]

\* C27 witness: the peer has applied an Upsert and then the Delete of the
\* same feature; both sides hold no feature and V[leader] = 2.
C27_Witness ==
    /\ PeerCaughtUp /\ AllAppended
    /\ peer.read = 2
    /\ sinks[Peer][1].Action = Upsert /\ sinks[Peer][2].Action = Delete
    /\ peer.mem.data = EmptyMap /\ data = EmptyMap
    /\ peer.mem.vclock[Self] = 2 /\ vclock[Self] = 2

\* The features of a data map that this node originated.
OwnPayloads(d) == [id \in {x \in DOMAIN d : d[x].Name = Self} |-> d[id].Feature]

\* C28: whatever the peer missed before, once the node has restarted,
\* rebroadcast to the peer over a sink without failed writes and the peer
\* has applied everything written to it, the features originated by the node
\* are the same on the peer as on the node.
C28_CatchUpOnRestart ==
    (PeerCaughtUp /\ AllAppended) => OwnPayloads(peer.mem.data) = OwnPayloads(data)

\* C21: the lsn of a local transaction the engine applies is greater than the
\* lsn of every feature in data that this node originated, in whatever run
\* of the node (before a Snapshot and a restart or after) it was applied.
C21_OwnLsnsIncrease ==
    [][(ApplyCommandStep /\ last'.kind = "ApplyLocal" /\ last'.applied) =>
          \A id \in DOMAIN data : data[id].Name = Self => last'.tx.Lsn > data[id].LSN]_vars

\* C31: a Snapshot that wrote the snapshot file replies Ok, whether or not a
\* WAL file exists, and leaves the WAL empty or absent.
C31_SnapshotOkWhenWritten ==
    [][(SnapshotStep /\ snapshotFile' # snapshotFile) =>
          last'.reply = "Ok" /\ walFile'.lines = << >>]_vars

\* The records a WAL file holds.
RecordsIn(file) == {file.lines[i] : i \in DOMAIN file.lines}

\* C32: an ApplyCommand writes to a sink only the transaction it has just
\* appended to the WAL; and as long as no snapshot has been written, every
\* message a sink holds is a record of the WAL.
C32_SentOnlyAfterAppend ==
    /\ [][ApplyCommandStep =>
            \A r \in Replicas :
                sinks'[r] # sinks[r] =>
                    /\ sinks'[r] = Append(sinks[r], last'.tx)
                    /\ walFile'.lines = Append(walFile.lines, MarshalTx(last'.tx))
                    /\ last'.reply = "Ok"
       ]_vars
    /\ [](~snapshotFile.exists =>
            \A r \in Replicas : \A i \in DOMAIN sinks[r] :
                MarshalTx(sinks[r][i]) \in RecordsIn(walFile))

\* C32 witness: the ApplyLocal just executed appended its record to the WAL
\* and wrote the transaction to both sinks.
C32_Witness ==
    /\ last.kind = "ApplyLocal" /\ last.applied /\ last.reply = "Ok"
    /\ walFile.lines = <<MarshalTx(last.tx)>>
    /\ \A r \in Replicas : sinks[r] = <<last.tx>>

\* What a restart would recover from the two files knows of tx: its vector
\* clock has reached tx's lsn, or data holds a feature of tx's origin with an
\* lsn that is not older.
Remembers(m, tx) ==
    \/ m.vclock[tx.Name] >= tx.Lsn
    \/ \E id \in DOMAIN m.data : m.data[id].Name = tx.Name /\ m.data[id].LSN >= tx.Lsn

\* C33: when an Apply replies Ok for T, a restart right after it recovers
\* from the snapshot and the WAL a state that knows T.
C33_AckedIsDurable ==
    [][(ApplyCommandStep /\ last'.reply = "Ok") =>
          Remembers(Recover(snapshotFile', walFile'), last'.tx)]_vars

\* C34: the Upsert of a replace request is applied only to an id that data
\* holds at that moment, and so is the Delete of a delete request answered
\* 200, whatever other requests ran between the handler's Exists and its
\* ApplyTransaction.
C34_ReplaceDeleteAtomic ==
    [][\A c \in Callers :
        (ApplyRequestStep(c) /\ last'.applied) =>
            /\ request[c].method = "replace" => request[c].body.feature.ID \in DOMAIN data
            /\ (request[c].method = "delete" /\ request'[c].status = StatusOK) =>
                   request[c].body.feature.ID \in DOMAIN data
    ]_vars

\* C35: a select is redirected at most MaxRedirects times, and every
\* redirect carries a ttl one smaller than the ttl the storage received
\* (MaxRedirects when it received none).
C35_RedirectsBounded ==
    /\ [](selects.hops <= MaxRedirects)
    /\ [][selects'.hops = selects.hops + 1 =>
            /\ selects'.ttl.present
            /\ selects'.ttl.value =
                   (IF selects.ttl.present THEN selects.ttl.value ELSE MaxRedirects) - 1
       ]_vars

====
